---- MODULE Spec2Model ----
(***************************************************************************)
(* Model of frontend/src/App.jsx: the recorder / transcription component.  *)
(*                                                                         *)
(* The component state (recording, audioUrl, transcription), the two refs  *)
(* (mediaRecorderRef, audioChunksRef) and the browser objects the handlers *)
(* create (MediaRecorder instances with their streams, the pending         *)
(* getUserMedia calls and the pending fetch / json promises) are the       *)
(* variables.  Every callback of the component is one action; an async     *)
(* function is cut at its awaits.                                          *)
(*                                                                         *)
(* mediaRecorderRef holds the recorder object itself.  A recorder that is  *)
(* still alive (recording, or stopped with its stop event still to come)   *)
(* when a later startRecording overwrites the ref goes to the bag          *)
(* unreferenced: the browser keeps it running, the program cannot reach it *)
(* any more.  The invocations of onstop that are suspended at an await are *)
(* the bag uploads.                                                        *)
(*                                                                         *)
(* A recorder stops when stopRecording calls stop() on it and also when    *)
(* the tracks of its stream end; onstop runs in both cases.                *)
(***************************************************************************)
EXTENDS Integers, Sequences, FiniteSets, Bags, TLC

\* ---- bounds ----
MaxRecorders == 2     \* MediaRecorder objects alive at the same time
MaxUploads   == 2     \* onstop invocations suspended at an await
MaxPending   == 2     \* startRecording calls waiting for getUserMedia
MaxChunks    == 1     \* length of audioChunksRef.current
MaxCount     == 2     \* the two event counters stop counting here

\* the data of the dataavailable events; the code never looks into it
Fragments == {"chunk"}

\* ---- JavaScript values that reach the transcription state ----
Str(s)    == <<"string", s>>
Undefined == <<"undefined", "undefined">>
JsNull    == <<"object", "null">>

\* falsy values of JavaScript among the ones modelled
Falsy(v) == v \in {Undefined, JsNull, Str("")}

\* a && b in the place of a || b
Or_And(a, b) == IF Falsy(a) THEN a ELSE b

\* a in the place of a || b: no default
Or_NoDefault(a, b) == a

\* a || b
Or(a, b) == IF Falsy(a) THEN b ELSE a

\* App.jsx:39  "Error al transcribir: " + err.message
ErrorPrefix == "Error al transcribir: "
ErrorText(message) == Str(ErrorPrefix \o message)

\* messages of the errors the try block can raise
FetchFailure == "Failed to fetch"
JsonFailure  == "Unexpected token"
NullFailure  == "Cannot read properties of null"

\* what the user types into the textarea
Typed == {Str("nota")}

\* values of the transcription field in a response object that has one
FieldValues == {Str("hola")}

\* parsed response bodies: null, or an object with or without the field
NullData    == [isNull |-> TRUE, obj |-> <<>>]
Object(o)   == [isNull |-> FALSE, obj |-> o]
JsonData    == {NullData} \cup {Object(<<>>)}
                 \cup {Object("transcription" :> v) : v \in FieldValues}

\* data.transcription
Field(data) == IF "transcription" \in DOMAIN data.obj
                 THEN data.obj["transcription"] ELSE Undefined

\* ---- object URLs ----
NullUrl == <<>>
\* URL.createObjectURL(blob): a reference that resolves to the blob
createObjectURL(b) == <<b>>

\* ---- the origin of the transcription text ----
\* by "useState": nothing has called setTranscription yet
\* by "onChange": the textarea
\* by "try":      line 37, with the parsed body data
\* by "catch":    line 39, with the error message
NoData        == [isNull |-> TRUE, obj |-> "none" :> Undefined]
Initial       == [by |-> "useState", data |-> NoData, message |-> ""]
ByUser        == [by |-> "onChange", data |-> NoData, message |-> ""]
ByTry(d)      == [by |-> "try", data |-> d, message |-> ""]
ByCatch(m, d) == [by |-> "catch", data |-> d, message |-> m]

\* ---- recorders ----
\* state    MediaRecorder.state, with "stopping" for an inactive recorder
\*          whose stop task is still queued and "null" for no recorder
\* stream   the stream it was constructed on: "live" until its tracks end
\* emitted  the fragments it has emitted since startRecording completed
\* overlap  an upload was pending when its startRecording completed
Recorder(state, emitted, overlap) ==
  [state |-> state, stream |-> "live", emitted |-> emitted, overlap |-> overlap]

NoRecorder ==
  [state |-> "null", stream |-> "none", emitted |-> <<>>, overlap |-> FALSE]

Alive(r) == r.state \in {"recording", "stopping"}

\* emitted and overlap describe the recorder the ref holds; they are dropped
\* when it loses the ref
Unreferenced(r) == [r EXCEPT !.emitted = <<>>, !.overlap = FALSE]

VARIABLES
  recording,         \* useState(false)
  audioUrl,          \* useState(null)
  transcription,     \* useState("")
  mediaRecorderRef,  \* useRef(null).current
  audioChunksRef,    \* useRef([]).current: sequence of fragments
  pendingStarts,     \* startRecording calls suspended at await getUserMedia
  unreferenced,      \* bag of the live recorders the ref no longer holds
  uploads,           \* bag of suspended onstop invocations
  stopEvents,        \* stop events handled, up to MaxCount
  requests,          \* fetch calls made, up to MaxCount
  written            \* what the last call of setTranscription was made with

vars == <<recording, audioUrl, transcription, mediaRecorderRef, audioChunksRef,
          pendingStarts, unreferenced, uploads, stopEvents, requests, written>>

\* a suspended onstop invocation: it waits for fetch(...) and then for
\* res.json(), and touches no state in between; payload is the blob in formData
Upload(payload) == [payload |-> payload]

Pending == BagToSet(uploads)

Add(u)    == uploads (+) SetToBag({u})
Remove(u) == uploads (-) SetToBag({u})

\* the counters count up to MaxCount
Count(n) == IF n < MaxCount THEN n + 1 ELSE n

\* recorders alive
AliveCount ==
  (IF Alive(mediaRecorderRef) THEN 1 ELSE 0) + BagCardinality(unreferenced)

Init ==
  /\ recording = FALSE
  /\ audioUrl = NullUrl
  /\ transcription = Str("")
  /\ mediaRecorderRef = NoRecorder
  /\ audioChunksRef = <<>>
  /\ pendingStarts = 0
  /\ unreferenced = EmptyBag
  /\ uploads = EmptyBag
  /\ stopEvents = 0
  /\ requests = 0
  /\ written = Initial

\* ---- startRecording ----

\* click on "Iniciar grabacion" (rendered when !recording): the call runs up
\* to await navigator.mediaDevices.getUserMedia(...)
startRecording ==
  /\ ~recording
  /\ pendingStarts < MaxPending
  /\ pendingStarts' = pendingStarts + 1
  /\ UNCHANGED <<recording, audioUrl, transcription, mediaRecorderRef,
                 audioChunksRef, unreferenced, uploads, stopEvents, requests,
                 written>>

\* a startRecording that also clears the playable audio
getUserMediaResolved_ClearsAudio ==
  /\ pendingStarts > 0
  /\ AliveCount < MaxRecorders
  /\ pendingStarts' = pendingStarts - 1
  /\ audioChunksRef' = <<>>
  /\ unreferenced' =
       IF Alive(mediaRecorderRef)
         THEN unreferenced (+) SetToBag({Unreferenced(mediaRecorderRef)})
         ELSE unreferenced
  /\ mediaRecorderRef' = Recorder("recording", <<>>, uploads # EmptyBag)
  /\ recording' = TRUE
  /\ audioUrl' = NullUrl
  /\ UNCHANGED <<transcription, uploads, stopEvents, requests, written>>

\* getUserMedia resolves: lines 14-45 run to the end
getUserMediaResolved ==
  /\ pendingStarts > 0
  /\ AliveCount < MaxRecorders
  /\ pendingStarts' = pendingStarts - 1
  /\ audioChunksRef' = <<>>
  /\ unreferenced' =
       IF Alive(mediaRecorderRef)
         THEN unreferenced (+) SetToBag({Unreferenced(mediaRecorderRef)})
         ELSE unreferenced
  /\ mediaRecorderRef' = Recorder("recording", <<>>, uploads # EmptyBag)
  /\ recording' = TRUE
  /\ UNCHANGED <<audioUrl, transcription, uploads, stopEvents, requests,
                 written>>

\* a startRecording that clears the fragment list before the await
getUserMediaRejected_ClearsChunks ==
  /\ pendingStarts > 0
  /\ pendingStarts' = pendingStarts - 1
  /\ audioChunksRef' = <<>>
  /\ UNCHANGED <<recording, audioUrl, transcription, mediaRecorderRef,
                 unreferenced, uploads, stopEvents, requests, written>>

\* getUserMedia rejects: the await throws and the call ends there
getUserMediaRejected ==
  /\ pendingStarts > 0
  /\ pendingStarts' = pendingStarts - 1
  /\ UNCHANGED <<recording, audioUrl, transcription, mediaRecorderRef,
                 audioChunksRef, unreferenced, uploads, stopEvents, requests,
                 written>>

\* ---- mediaRecorder.ondataavailable ----

\* audioChunksRef.current.push(e.data)
push(chunks, data) == Append(chunks, data)

\* a dataavailable event of the recorder in the ref
ondataavailable(f) ==
  /\ mediaRecorderRef.state = "recording"
  /\ Len(audioChunksRef) < MaxChunks
  /\ audioChunksRef' = push(audioChunksRef, f)
  /\ mediaRecorderRef' = [mediaRecorderRef EXCEPT !.emitted = Append(@, f)]
  /\ UNCHANGED <<recording, audioUrl, transcription, pendingStarts,
                 unreferenced, uploads, stopEvents, requests, written>>

\* a dataavailable event of a recorder that is still recording after the ref
\* was overwritten: the same handler, the same shared array
ondataavailableUnreferenced(f) ==
  /\ \E o \in BagToSet(unreferenced) : o.state = "recording"
  /\ Len(audioChunksRef) < MaxChunks
  /\ audioChunksRef' = push(audioChunksRef, f)
  /\ UNCHANGED <<recording, audioUrl, transcription, mediaRecorderRef,
                 pendingStarts, unreferenced, uploads, stopEvents, requests,
                 written>>

\* ---- stopRecording ----

\* a stopRecording without setRecording(false)
stopRecording_KeepsFlag ==
  /\ recording
  /\ mediaRecorderRef.state = "recording"
  /\ mediaRecorderRef' = [mediaRecorderRef EXCEPT !.state = "stopping"]
  /\ UNCHANGED <<recording, audioUrl, transcription, audioChunksRef,
                 pendingStarts, unreferenced, uploads, stopEvents, requests,
                 written>>

\* click on "Detener grabacion" (rendered when recording).
\* mediaRecorderRef.current.stop() throws on null before setRecording runs;
\* on a recorder that is not recording it does nothing.
stopRecording ==
  /\ recording
  /\ IF mediaRecorderRef = NoRecorder
       THEN UNCHANGED <<mediaRecorderRef, recording>>
       ELSE /\ mediaRecorderRef' =
                 IF mediaRecorderRef.state = "recording"
                   THEN [mediaRecorderRef EXCEPT !.state = "stopping"]
                   ELSE mediaRecorderRef
            /\ recording' = FALSE
  /\ UNCHANGED <<audioUrl, transcription, audioChunksRef, pendingStarts,
                 unreferenced, uploads, stopEvents, requests, written>>

\* ---- mediaRecorder.onstop ----

\* new Blob(audioChunksRef.current, ...): a copy of the fragments
Blob(chunks) == chunks

\* what a stop task delivers before the stop event: the data gathered since
\* the last dataavailable event, if any
Lasts == {<<>>} \cup {<<f>> : f \in Fragments}

\* an onstop that also calls setRecording(false)
onstop_ClearsRecording(last) ==
  /\ Len(audioChunksRef) + Len(last) <= MaxChunks
  /\ BagCardinality(uploads) < MaxUploads
  /\ audioChunksRef' = audioChunksRef \o last
  /\ audioUrl' = createObjectURL(Blob(audioChunksRef \o last))
  /\ uploads' = Add(Upload(Blob(audioChunksRef \o last)))
  /\ requests' = Count(requests)
  /\ stopEvents' = Count(stopEvents)
  /\ recording' = FALSE
  /\ UNCHANGED <<transcription, pendingStarts, written>>

\* an onstop that issues the request without setting audioUrl first
onstop_UrlNotSet(last) ==
  /\ Len(audioChunksRef) + Len(last) <= MaxChunks
  /\ BagCardinality(uploads) < MaxUploads
  /\ audioChunksRef' = audioChunksRef \o last
  /\ uploads' = Add(Upload(Blob(audioChunksRef \o last)))
  /\ requests' = Count(requests)
  /\ stopEvents' = Count(stopEvents)
  /\ UNCHANGED <<recording, audioUrl, transcription, pendingStarts, written>>

\* the stop task of a recorder: a last dataavailable event when last # <<>>,
\* then onstop up to await fetch(...)
onstop(last) ==
  /\ Len(audioChunksRef) + Len(last) <= MaxChunks
  /\ BagCardinality(uploads) < MaxUploads
  /\ LET chunks == IF last = <<>> THEN audioChunksRef
                   ELSE push(audioChunksRef, last[1])
         b == Blob(chunks)
     IN /\ audioChunksRef' = chunks
        /\ audioUrl' = createObjectURL(b)
        /\ uploads' = Add(Upload(b))
  /\ requests' = Count(requests)
  /\ stopEvents' = Count(stopEvents)
  /\ UNCHANGED <<recording, transcription, pendingStarts, written>>

\* the stop event of the recorder in the ref
stopEvent(last) ==
  /\ mediaRecorderRef.state = "stopping"
  /\ onstop(last)
  /\ mediaRecorderRef' = [mediaRecorderRef EXCEPT !.state = "inactive",
                                                  !.emitted = <<>>,
                                                  !.overlap = FALSE]
  /\ UNCHANGED unreferenced

\* the stop event of a recorder stopped before the ref was overwritten
stopEventUnreferenced(o, last) ==
  /\ o \in BagToSet(unreferenced)
  /\ o.state = "stopping"
  /\ onstop(last)
  /\ unreferenced' = unreferenced (-) SetToBag({o})
  /\ UNCHANGED mediaRecorderRef

\* ---- the tracks of a stream end ----

\* the microphone of the recorder in the ref goes away (unplugged, permission
\* withdrawn) while it records: the browser stops the recorder and runs its
\* stop task.  The component has no handler for the end of a track and reads
\* the recorder's state nowhere, so the two are one step.
trackEnded(last) ==
  /\ mediaRecorderRef.state = "recording"
  /\ onstop(last)
  /\ mediaRecorderRef' = [mediaRecorderRef EXCEPT !.state = "inactive",
                                                  !.stream = "ended",
                                                  !.emitted = <<>>,
                                                  !.overlap = FALSE]
  /\ UNCHANGED unreferenced

\* the same for a recorder the ref no longer holds
trackEndedUnreferenced(o, last) ==
  /\ o \in BagToSet(unreferenced)
  /\ o.state = "recording"
  /\ onstop(last)
  /\ unreferenced' = unreferenced (-) SetToBag({o})
  /\ UNCHANGED mediaRecorderRef

\* a catch block that also drops the playable audio
catch_ResetsAudio(u, message, data) ==
  /\ transcription' = ErrorText(message)
  /\ written' = ByCatch(message, data)
  /\ uploads' = Remove(u)
  /\ audioUrl' = NullUrl
  /\ UNCHANGED <<recording, mediaRecorderRef, audioChunksRef, pendingStarts,
                 unreferenced, stopEvents, requests>>

\* a catch block that sends the request again
catch_Retries(u, message, data) ==
  /\ transcription' = ErrorText(message)
  /\ written' = ByCatch(message, data)
  /\ uploads' = uploads
  /\ requests' = Count(requests)
  /\ UNCHANGED <<recording, audioUrl, mediaRecorderRef, audioChunksRef,
                 pendingStarts, unreferenced, stopEvents>>

\* a catch block that leaves a text the user typed alone
catch_KeepsEdit(u, message, data) ==
  /\ IF written = ByUser
       THEN UNCHANGED <<transcription, written>>
       ELSE /\ transcription' = ErrorText(message)
            /\ written' = ByCatch(message, data)
  /\ uploads' = Remove(u)
  /\ UNCHANGED <<recording, audioUrl, mediaRecorderRef, audioChunksRef,
                 pendingStarts, unreferenced, stopEvents, requests>>

\* catch (err) { setTranscription("Error al transcribir: " + err.message) }
\* data is the parsed body when there is one, NoData otherwise
catch(u, message, data) ==
  /\ transcription' = ErrorText(message)
  /\ written' = ByCatch(message, data)
  /\ uploads' = Remove(u)
  /\ UNCHANGED <<recording, audioUrl, mediaRecorderRef, audioChunksRef,
                 pendingStarts, unreferenced, stopEvents, requests>>

\* fetch rejects (network failure)
fetchRejected(u) ==
  /\ u \in Pending
  /\ catch(u, FetchFailure, NoData)

\* fetch resolves and res.json() rejects (the body is not JSON)
jsonRejected(u) ==
  /\ u \in Pending
  /\ catch(u, JsonFailure, NoData)

\* a completion that drops the response while another upload is pending
jsonResolved_LatestOnly(u, data) ==
  /\ u \in Pending
  /\ uploads' = Remove(u)
  /\ IF Remove(u) # EmptyBag
       THEN UNCHANGED <<transcription, written>>
       ELSE /\ transcription' = Or(Field(data), Str(""))
            /\ written' = ByTry(data)
  /\ UNCHANGED <<recording, audioUrl, mediaRecorderRef, audioChunksRef,
                 pendingStarts, unreferenced, stopEvents, requests>>

\* fetch resolves and res.json() resolves with data:
\* setTranscription(data.transcription || ""); reading a property of null
\* throws a TypeError inside the try block
jsonResolved(u, data) ==
  /\ u \in Pending
  /\ IF data.isNull
       THEN catch(u, NullFailure, data)
       ELSE /\ transcription' = Or(Field(data), Str(""))
            /\ written' = ByTry(data)
            /\ uploads' = Remove(u)
            /\ UNCHANGED <<recording, audioUrl, mediaRecorderRef,
                           audioChunksRef, pendingStarts, unreferenced,
                           stopEvents, requests>>

\* ---- textarea and "Enviar al modelo" ----

\* onChange={(e) => setTranscription(e.target.value)}
onChange(value) ==
  /\ transcription' = value
  /\ written' = ByUser
  /\ UNCHANGED <<recording, audioUrl, mediaRecorderRef, audioChunksRef,
                 pendingStarts, unreferenced, uploads, stopEvents, requests>>

\* onClick={() => console.log("Enviar al modelo:", transcription)}
\* console.log writes to the developer console, which the program never reads
enviarAlModelo ==
  UNCHANGED vars

\* some recorder emits a fragment
DataAvailable ==
  \E f \in Fragments : ondataavailable(f) \/ ondataavailableUnreferenced(f)

\* the stop task of some recorder runs
StopTask ==
  \E last \in Lasts :
    \/ stopEvent(last)
    \/ \E o \in BagToSet(unreferenced) : stopEventUnreferenced(o, last)

\* the tracks of some recorder's stream end
TrackEnd ==
  \E last \in Lasts :
    \/ trackEnded(last)
    \/ \E o \in BagToSet(unreferenced) : trackEndedUnreferenced(o, last)

\* some suspended onstop invocation resumes
Completion ==
  \/ \E u \in Pending : fetchRejected(u)
  \/ \E u \in Pending : jsonRejected(u)
  \/ \E u \in Pending, data \in JsonData : jsonResolved(u, data)

Next ==
  \/ startRecording
  \/ getUserMediaResolved
  \/ getUserMediaRejected
  \/ \E f \in Fragments : ondataavailable(f)
  \/ \E f \in Fragments : ondataavailableUnreferenced(f)
  \/ stopRecording
  \/ \E last \in Lasts : stopEvent(last)
  \/ \E last \in Lasts, o \in BagToSet(unreferenced) :
       stopEventUnreferenced(o, last)
  \/ \E last \in Lasts : trackEnded(last)
  \/ \E last \in Lasts, o \in BagToSet(unreferenced) :
       trackEndedUnreferenced(o, last)
  \/ \E u \in Pending : fetchRejected(u)
  \/ \E u \in Pending : jsonRejected(u)
  \/ \E u \in Pending, data \in JsonData : jsonResolved(u, data)
  \/ \E value \in Typed : onChange(value)
  \/ enviarAlModelo

Spec == Init /\ [][Next]_vars

\* Every step below is a step of Next, so every finite behaviour of Spec is
\* the start of a behaviour of SpecLive: what SpecLive reaches again and
\* again can be reached from every reachable state of Spec.
SpecLive ==
  /\ Spec
  /\ WF_vars(startRecording \/ stopRecording)
  /\ SF_vars(getUserMediaResolved)
  /\ WF_vars(StopTask)
  /\ WF_vars(Completion)

TypeOK ==
  /\ recording \in BOOLEAN
  /\ pendingStarts \in 0..MaxPending
  /\ mediaRecorderRef.state \in {"null", "recording", "stopping", "inactive"}
  /\ mediaRecorderRef.stream \in {"none", "live", "ended"}
  /\ AliveCount <= MaxRecorders
  /\ Len(audioChunksRef) <= MaxChunks
  /\ BagCardinality(uploads) <= MaxUploads

\* ======================= properties =======================

\* the recorders alive
AliveRecorders ==
  {r \in {mediaRecorderRef} : Alive(r)} \cup BagToSet(unreferenced)

\* the step handles the stop event of the recorder in the ref, which had
\* emitted e and had started with (ov) or without (~ov) an upload pending
StopEventOf(e, ov) ==
  /\ mediaRecorderRef.state \in {"recording", "stopping"}
  /\ mediaRecorderRef'.state = "inactive"
  /\ mediaRecorderRef.emitted = e
  /\ mediaRecorderRef.overlap = ov

\* sequences of fragments
Emissions == UNION {[1..n -> Fragments] : n \in 0..MaxChunks}

\* the payloads of the requests the step issues
Issued == {u \in BagToSet(uploads') :
             CopiesIn(u, uploads') > CopiesIn(u, uploads)}

\* the fragments the step appends to audioChunksRef.current
Pushed == SubSeq(audioChunksRef', Len(audioChunksRef) + 1, Len(audioChunksRef'))

\* C1: the blob finalized in the onstop handler of the recorder in the ref
\* consists of exactly the fragments that recorder emitted since its
\* startRecording completed, in emission order (the empty blob when it
\* emitted none).
C1_BlobIsEmitted ==
  [][\A e \in Emissions, ov \in BOOLEAN :
       StopEventOf(e, ov) =>
         \A u \in Issued : u.payload = e \o Pushed]_vars

\* C2: a recording started while an earlier upload is in flight starts from an
\* empty fragment list, finalizes exactly the fragments its own recorder
\* emitted, and leaves the payload of the upload in flight as it was.
C2_OverlappingSession ==
  [][/\ (getUserMediaResolved /\ uploads # EmptyBag) =>
          (audioChunksRef' = <<>> /\ uploads' = uploads)
     /\ \A e \in Emissions :
          StopEventOf(e, TRUE) =>
             /\ \A u \in Issued : u.payload = e \o Pushed
             /\ \A u \in BagToSet(uploads) :
                  CopiesIn(u, uploads') >= CopiesIn(u, uploads)]_vars

\* the transcription field of the body d is a string
StringField(d) ==
  /\ ~d.isNull
  /\ "transcription" \in DOMAIN d.obj
  /\ Field(d)[1] = "string"

\* C3: after an upload completes with an object whose transcription field is
\* a string t, the text is exactly t, written by the try block.
C3_TextIsField ==
  (written.by # "onChange" /\ StringField(written.data)) =>
     (written.by = "try" /\ transcription = Field(written.data))

C3_Witness ==
  /\ written = ByTry(Object("transcription" :> Str("hola")))
  /\ transcription = Str("hola")

\* C4: after an upload completes with an object that has no transcription
\* field, the text is the empty string and the catch block has not run.
C4_MissingFieldIsEmpty ==
  (written.by # "onChange" /\ written.data = Object(<<>>)) =>
     (written.by = "try" /\ transcription = Str(""))

C4_Witness ==
  /\ written = ByTry(Object(<<>>))
  /\ transcription = Str("")
  /\ requests > 0

\* C5: a rejected fetch or an unparseable body is caught in the stop handler:
\* the text becomes "Error al transcribir: " + message, and recording,
\* audioUrl and the fragment list stay as they were.
C5_FailureCaught ==
  [][\A u \in Pending :
       /\ fetchRejected(u) =>
            /\ transcription' = Str("Error al transcribir: Failed to fetch")
            /\ UNCHANGED <<recording, audioUrl, audioChunksRef>>
       /\ jsonRejected(u) =>
            /\ transcription' = Str("Error al transcribir: Unexpected token")
            /\ UNCHANGED <<recording, audioUrl, audioChunksRef>>]_vars

C5_Witness ==
  /\ written = ByCatch(FetchFailure, NoData)
  /\ transcription = Str("Error al transcribir: Failed to fetch")
  /\ recording
  /\ audioUrl # NullUrl
  /\ audioChunksRef # <<>>

\* C6: the number of requests issued equals the number of stop events
\* handled (both counted up to MaxCount); a failed request is not sent again.
C6_OneRequestPerStop ==
  /\ requests = stopEvents
  /\ BagCardinality(uploads) <= requests

C6_Witness ==
  /\ written.by = "catch"
  /\ uploads = EmptyBag
  /\ requests = 1
  /\ stopEvents = 1

\* C7: recording starts false, goes from false to true only when a
\* startRecording call completes and from true to false only in
\* stopRecording; no step of fragment emission, of a stop event, of an upload
\* completion, of a text edit or of "Enviar al modelo" changes it.
C7_RecordingTransitions ==
  /\ recording = FALSE
  /\ [][recording' # recording =>
          /\ IF recording' THEN getUserMediaResolved ELSE stopRecording
          /\ ~ \/ DataAvailable
               \/ StopTask
               \/ TrackEnd
               \/ Completion
               \/ \E value \in Typed : onChange(value)
               \/ enviarAlModelo]_vars

C7_Witness ==
  /\ ~recording
  /\ mediaRecorderRef.state = "stopping"
  /\ requests > 0

\* C8: recording is true exactly when a recorder made by startRecording is
\* capturing.
C8_ToggleReflectsCapture ==
  recording <=> \E r \in AliveRecorders : r.state = "recording"

\* C9: once a capture has been stopped, the stream acquired for it is closed;
\* no stream is open while the controller is idle.
C9_StreamReleased ==
  \A r \in {mediaRecorderRef} \cup BagToSet(unreferenced) :
     r.stream = "live" => r.state = "recording"

\* C10: there is no terminal state: whatever uploads are pending, failed or
\* completed, the controller can come back to idle and a new recording can be
\* started, stopped and finalized, again and again.
C10_NoTerminalState ==
  /\ []<>(recording = FALSE)
  /\ []<>(recording = TRUE)
  /\ []<><<StopTask \/ TrackEnd>>_vars

C10_Witness ==
  /\ ~recording
  /\ stopEvents = MaxCount
  /\ written.by = "catch"
  /\ uploads # EmptyBag
  /\ pendingStarts > 0

\* the text a call of setTranscription with origin w leaves
TextOf(w) ==
  IF w.by = "catch" THEN ErrorText(w.message)
  ELSE IF StringField(w.data) THEN Field(w.data) ELSE Str("")

\* C11: uploads of successive recordings are pending together and complete
\* in any order; every completion, whatever else is pending and whichever
\* recording it belongs to, writes its own value to the text, so the text
\* left when all have completed is the one of the completion handled last.
C11_LastCompletionWins ==
  /\ [](written.by \in {"try", "catch"} => transcription = TextOf(written))
  /\ [][Completion =>
          /\ written'.by \in {"try", "catch"}
          /\ transcription' = TextOf(written')
          /\ BagCardinality(uploads') = BagCardinality(uploads) - 1]_vars

\* the upload of the last stop event (payload <<"chunk">>, the audio shown)
\* has completed and written the text, the one of an earlier stop event
\* (payload <<>>) is still pending: its completion will be handled last
C11_Witness ==
  /\ audioUrl = createObjectURL(Blob(<<"chunk">>))
  /\ uploads = SetToBag({Upload(Blob(<<>>))})
  /\ written = ByTry(Object("transcription" :> Str("hola")))
  /\ transcription = Str("hola")

\* the upload u fails in the step
Fails(u) ==
  \/ fetchRejected(u)
  \/ jsonRejected(u)
  \/ jsonResolved(u, NullData)

\* the error strings of the catch block
ErrorTexts == {ErrorText(m) : m \in {FetchFailure, JsonFailure, NullFailure}}

\* C12: when the text is an edit of the user and a pending upload fails, the
\* same step replaces the text by the error string; the edit is in no part
\* of the component state afterwards (the other state and refs are as before).
C12_EditOverwritten ==
  [][\A u \in Pending :
       (written = ByUser /\ transcription \in Typed /\ Fails(u)) =>
          /\ transcription' \in ErrorTexts
          /\ transcription' # transcription
          /\ UNCHANGED <<recording, audioUrl, mediaRecorderRef,
                         audioChunksRef>>]_vars

\* the user's edit is the text while an upload is in flight: each failure
\* of that upload is enabled here
C12_Witness ==
  /\ written = ByUser
  /\ transcription = Str("nota")
  /\ uploads # EmptyBag
  /\ requests > 0

\* C13: audioUrl is null exactly as long as no stop event has been handled;
\* a step never takes it back to null, and every stop event sets it to a
\* reference to the blob that event finalizes.
C13_AudioUrlSetAtStop ==
  /\ [](audioUrl = NullUrl <=> stopEvents = 0)
  /\ [][/\ audioUrl # NullUrl => audioUrl' # NullUrl
        /\ audioUrl' # audioUrl => (StopTask \/ TrackEnd)
        /\ (StopTask \/ TrackEnd) =>
             audioUrl' = createObjectURL(Blob(audioChunksRef'))]_vars

\* a second stop event has replaced the reference to the blob of an earlier
\* one, whose upload is still pending
C13_Witness ==
  /\ stopEvents = 2
  /\ audioUrl = createObjectURL(Blob(<<>>))
  /\ Upload(Blob(<<"chunk">>)) \in Pending

\* C14: a rejected getUserMedia ends the startRecording call with no effect:
\* recording (false unless another call has completed), the fragment list,
\* the recorder in the ref, the set of recorders, audioUrl and the text are
\* what they were.
C14_RejectionHasNoEffect ==
  [][pendingStarts' < pendingStarts =>
       \/ getUserMediaResolved
       \/ /\ getUserMediaRejected
          /\ UNCHANGED <<recording, audioChunksRef, mediaRecorderRef,
                         unreferenced, audioUrl, transcription, uploads>>
          /\ AliveCount' = AliveCount]_vars

\* a startRecording call is waiting while there are fragments, a recorder, an
\* audio reference and a text to lose: its rejection is enabled here
C14_Witness ==
  /\ pendingStarts = 1
  /\ ~recording
  /\ audioChunksRef # <<>>
  /\ mediaRecorderRef.state = "inactive"
  /\ audioUrl # NullUrl
  /\ transcription = Str("hola")

\* the number of recorders started and not stopped
Capturing ==
  (IF mediaRecorderRef.state = "recording" THEN 1 ELSE 0)
    + CopiesIn(Recorder("recording", <<>>, FALSE), unreferenced)

\* C15: at most one recorder is capturing, and a recorder that is capturing
\* is the one mediaRecorderRef holds.
C15_AtMostOneCapturing ==
  /\ Capturing <= 1
  /\ \A o \in BagToSet(unreferenced) : o.state # "recording"

\* C16: whenever recording is true, mediaRecorderRef holds a recorder that
\* has been started and has not stopped, so that stopRecording always finds
\* an active recorder.
C16_RecordingHasActiveRecorder ==
  recording => mediaRecorderRef.state = "recording"

\* C17: the step that issues a request has set audioUrl to a reference to
\* the blob in the request payload, so audioUrl is set in every state with a
\* request in flight; a completion, successful or failed, leaves it as it is.
C17_AudioUrlIsPayload ==
  /\ [](uploads # EmptyBag => audioUrl # NullUrl)
  /\ [][/\ \A u \in Issued : audioUrl' = createObjectURL(u.payload)
        /\ Completion => (audioUrl' = audioUrl /\ audioUrl # NullUrl)]_vars

\* the only request so far carried the blob <<"chunk">> and has failed;
\* audioUrl still refers to that blob
C17_Witness ==
  /\ stopEvents = 1
  /\ uploads = EmptyBag
  /\ written = ByCatch(JsonFailure, NoData)
  /\ audioUrl = createObjectURL(Blob(<<"chunk">>))
====
